---- MODULE Spec2Model ----
(***************************************************************************)
(* The GitHub file-operations MCP server: the commit_files and             *)
(* delete_files tools, the six-call git-database protocol they run against *)
(* the remote, and the writers that share the branch with them.            *)
(*                                                                         *)
(* Strings that the code inspects character by character (paths) are       *)
(* sequences of one-character strings.  Messages the code builds from      *)
(* template literals are sequences of their parts.  Shas and HTTP statuses *)
(* are strings, as they are in the interpolated messages.                  *)
(***************************************************************************)
EXTENDS Integers, Sequences, FiniteSets, TLC

(***************************************************************************)
(* Bounds of the model.                                                    *)
(***************************************************************************)
\* longest files / paths array a tool is called with
MaxFiles == 2
\* commits pushed to the branch by other writers in one behaviour
MaxOther == 1

(***************************************************************************)
(* Strings.                                                                *)
(***************************************************************************)
\* String.prototype.startsWith
StartsWith(s, prefix) ==
    /\ Len(prefix) <= Len(s)
    /\ SubSeq(s, 1, Len(prefix)) = prefix

\* String.prototype.slice(n), n >= 0
Slice(s, n) == SubSeq(s, n + 1, Len(s))

RECURSIVE SplitAcc(_, _, _)
SplitAcc(s, cur, acc) ==
    IF s = <<>> THEN Append(acc, cur)
    ELSE IF Head(s) = "/" THEN SplitAcc(Tail(s), <<>>, Append(acc, cur))
    ELSE SplitAcc(Tail(s), Append(cur, Head(s)), acc)

\* the segments of a path between its slashes
Segments(s) == SplitAcc(s, <<>>, <<>>)

RECURSIVE Resolve(_, _)
Resolve(segs, out) ==
    IF segs = <<>> THEN out
    ELSE IF Head(segs) = <<>> \/ Head(segs) = <<".">> THEN Resolve(Tail(segs), out)
    ELSE IF Head(segs) = <<".", ".">>
         THEN Resolve(Tail(segs), IF out = <<>> THEN out ELSE SubSeq(out, 1, Len(out) - 1))
    ELSE Resolve(Tail(segs), Append(out, Head(segs)))

RECURSIVE Glue(_)
Glue(segs) ==
    IF segs = <<>> THEN <<>> ELSE <<"/">> \o Head(segs) \o Glue(Tail(segs))

\* path.join(dir, p) for an absolute dir: concatenate and normalize
Join(dir, p) ==
    LET r == Glue(Resolve(Segments(dir \o <<"/">> \o p), <<>>))
    IN  IF r = <<>> THEN <<"/">> ELSE r

(***************************************************************************)
(* Process-wide configuration and the local disk.                          *)
(***************************************************************************)
\* process.cwd()
Cwd == <<"/", "r">>

\* REPO_DIR = process.env.REPO_DIR || process.cwd()
REPO_DIR == Cwd

\* readFile(fullPath, "utf-8"): the text of the file, or a rejection
ReadFile(fullPath) ==
    IF fullPath = <<"/", "r", "/", "a">> THEN [ok |-> TRUE, content |-> "A1"]
    ELSE IF fullPath = <<"/", "r", "/", "b">> THEN [ok |-> TRUE, content |-> "B1"]
    ELSE IF fullPath = <<"/", "s">> THEN [ok |-> TRUE, content |-> "S1"]
    ELSE [ok |-> FALSE, content |-> "ENOENT: no such file or directory"]

\* the values of GITHUB_TOKEN: unset, or a credential
Tokens == {"", "ghs_tok"}

\* commit messages the tools are called with
Messages == {"update docs", "Debug: Test commit to reproduce 500 error"}

\* paths the commit_files tool is called with
CommitPaths == { <<"a">>, <<"/", "a">>, <<"m">> }

\* paths the delete_files tool is called with
DeletePaths ==
    { <<"a">>, <<"/", "r", "/", "a">>, <<"/", "r", "x", "/", "a">>, <<"/", "o", "/", "a">> }

\* the longest list of paths in the runs that explore path handling
MaxPathFiles == 2

\* more paths commit_files is called with: relative, leading slash, absolute
\* local, two leading slashes, leaving the repository through ..
WideCommitPaths ==
    { <<"a">>, <<"b">>, <<"/", "a">>, <<"/", "r", "/", "a">>, <<"/", "/", "s">>,
      <<".", ".", "/", "s">> }

\* more paths delete_files is called with: relative, below cwd, cwd itself, cwd
\* with a trailing slash, a sibling of cwd, elsewhere
WideDeletePaths ==
    { <<"a">>, <<"/", "r", "/", "a">>, <<"/", "r">>, <<"/", "r", "/">>,
      <<"/", "r", "x", "/", "a">>, <<"/", "o", "/", "a">> }

\* the tools: commit_files, its variant with the full request diagnostics, delete_files
Tools == {"commit_files", "commit_files_diag", "delete_files"}

IsCommitTool(t) == t \in {"commit_files", "commit_files_diag"}

SeqsUpTo(S, n) == UNION { [1..k -> S] : k \in 0..n }


(***************************************************************************)
(* Input handling of the two tools.                                        *)
(***************************************************************************)
\* a map that keeps every path as it was given
ProcessCommitPathKept(filePath) == filePath

\* commit_files: processedFiles = files.map(...), one leading slash is stripped
ProcessCommitPath(filePath) ==
    IF StartsWith(filePath, <<"/">>) THEN Slice(filePath, 1) ELSE filePath

\* commit_files: the local file that is read for a processed path
FullPath(filePath) ==
    IF StartsWith(filePath, <<"/">>) THEN filePath ELSE Join(REPO_DIR, filePath)

\* delete_files: a leading-slash path is kept only if it starts with cwd
DeletePathAccepted(filePath) ==
    StartsWith(filePath, <<"/">>) => StartsWith(filePath, Cwd)

\* delete_files: processedPaths = paths.map(...), for an accepted path
ProcessDeletePath(filePath) ==
    IF StartsWith(filePath, <<"/">>) THEN Slice(filePath, Len(Cwd) + 1) ELSE filePath

\* the message of the Error thrown for a leading-slash path outside cwd
PathError(filePath) ==
    <<"Path '">> \o filePath
      \o <<"' must be relative to repository root or within current working directory">>

\* the first path of the array that the map callback throws on (0: none)
FirstRejected(paths) ==
    IF \A i \in 1..Len(paths) : DeletePathAccepted(paths[i]) THEN 0
    ELSE CHOOSE i \in 1..Len(paths) :
            /\ ~DeletePathAccepted(paths[i])
            /\ \A j \in 1..(i - 1) : DeletePathAccepted(paths[j])

\* a tree entry that drops the content that was read
WriteEntryNoContent(filePath, content) ==
    [path |-> filePath, mode |-> "100644", type |-> "blob", content |-> ""]

\* tree entry of commit_files
WriteEntry(filePath, content) ==
    [path |-> filePath, mode |-> "100644", type |-> "blob", content |-> content]

\* a deletion entry that empties the file instead of removing it
DeleteEntryEmptied(filePath) ==
    [path |-> filePath, mode |-> "100644", type |-> "blob", content |-> ""]

\* tree entry of delete_files: sha null removes the path
DeleteEntry(filePath) ==
    [path |-> filePath, mode |-> "100644", type |-> "blob", sha |-> "null"]

\* a create-commit body that drops the caller's message
CommitBodyNoMessage(msg, tree, base) == [message |-> "", tree |-> tree, parents |-> <<base>>]

\* a create-tree body without the base tree
TreeBodyNoBase(baseTree, entries) == [base_tree |-> "", tree |-> entries]

\* body of the create-tree request
TreeBody(baseTree, entries) == [base_tree |-> baseTree, tree |-> entries]

\* body of the create-commit request
CommitBody(msg, tree, base) == [message |-> msg, tree |-> tree, parents |-> <<base>>]

\* an update-reference body that forces the move
UpdateRefBodyForced(newSha) == [sha |-> newSha, force |-> TRUE]

\* body of the update-reference request
UpdateRefBody(newSha) == [sha |-> newSha, force |-> FALSE]

\* body of the update-reference request of the revert script
RevertRefBody(parentSha) == [sha |-> parentSha, force |-> TRUE]

(***************************************************************************)
(* The catch block of both tools.                                          *)
(***************************************************************************)
FallbackMessage(t) ==
    IF t = "delete_files" THEN <<"Failed to delete files: Unknown error occurred">>
    ELSE <<"Failed to commit files: Unknown error occurred">>

\* a value a catch block can receive: an Error (message, first line of its
\* stack) or any other value (a string with its text, an object, null, undefined)
Caught(kind, msg, stack) == [kind |-> kind, message |-> msg, stack |-> stack]

\* new Error(message)
NewError(msg) == Caught("Error", msg, <<"Error: ">> \o msg)

NoCaught == Caught("none", <<>>, <<>>)

\* String(value) of a value that is not an Error
StringOf(v) ==
    CASE v.kind = "string" -> v.message
      [] v.kind = "object" -> <<"[object Object]">>
      [] v.kind = "null" -> <<"null">>
      [] OTHER -> <<"undefined">>

\* error instanceof Error ? error.message : String(error)
ErrorMessageOf(v) == IF v.kind = "Error" THEN v.message ELSE StringOf(v)

\* a catch block that rethrows the caught message as it is
NormalizeErrorNoFallback(t, v) == ErrorMessageOf(v)

\* the message of the Error that leaves the tool, from the caught value
NormalizeError(t, v) ==
    LET errorMessage == ErrorMessageOf(v)
    IN  IF \/ errorMessage = <<>>
           \/ errorMessage = <<"undefined">>
           \/ errorMessage = <<"[object Object]">>
        THEN IF v.kind = "Error" /\ v.stack # <<>>
             THEN <<IF t = "delete_files" THEN "Failed to delete files: "
                    ELSE "Failed to commit files: ">> \o v.stack
             ELSE FallbackMessage(t)
        ELSE errorMessage

\* the values the awaited calls of a handler are made to throw
CaughtValues ==
    { NewError(<<"socket hang up">>),
      Caught("Error", <<>>, <<"Error">>),
      Caught("Error", <<>>, <<>>),
      Caught("string", <<"boom">>, <<>>),
      Caught("string", <<>>, <<>>),
      Caught("object", <<>>, <<>>),
      Caught("null", <<>>, <<>>),
      Caught("undefined", <<>>, <<>>) }

(***************************************************************************)
(* Startup of the server process and of the action's prepare step.         *)
(***************************************************************************)
\* REPO_OWNER, REPO_NAME, BRANCH_NAME as the process finds them
Configs == [owner : {"", "o"}, repo : {"", "n"}, branch : {"", "b"}]

\* a check that forgets the branch
ConfigMissingBranchForgotten(env) == env.owner = "" \/ env.repo = ""

\* !REPO_OWNER || !REPO_NAME || !BRANCH_NAME
ConfigMissing(env) == env.owner = "" \/ env.repo = "" \/ env.branch = ""


(***************************************************************************)
(* State.                                                                  *)
(***************************************************************************)
VARIABLES
    \* the remote: the branch reference, the commit objects, the tree objects
    ref, commits, trees,
    \* the running tool invocation: where it is, and its arguments
    pc, tool, files, message, token,
    \* its locals
    processed, baseSha, baseTreeSha, reads, treeEntries, treeData, newCommitData,
    \* the requests it sent, the status each was answered with, what it wrote to
    \* stderr, what left it
    sent, got, log, outcome,
    \* what the remote held before and after it handled the reference update
    patchObs,
    \* commits pushed by other writers
    others,
    \* the body each answer carried, and the value the catch block received
    gotRead, caught,
    \* the server process: its configuration, whether it runs, its tools
    server,
    \* the prepare step: its environment and how far it got
    penv, prep,
    \* every value the branch reference has held
    refHist,
    \* the invocations that ended before the running one, and an invocation
    \* running at the same time
    earlier, peer

remoteVars == <<ref, commits, trees, refHist>>
argVars == <<tool, files, message, token>>
localVars == <<processed, baseSha, baseTreeSha, reads, treeEntries, treeData, newCommitData>>
hostVars == <<server, penv, prep>>
sideVars == <<earlier, peer>>
vars == <<remoteVars, pc, argVars, localVars, sent, got, log, outcome, patchObs, others,
          gotRead, caught, hostVars, sideVars>>

(***************************************************************************)
(* The remote's object model.                                              *)
(***************************************************************************)
\* the sha the remote gives the n-th commit / tree it stores
CommitSha(n) == "c" \o ToString(n)
TreeSha(n) == "t" \o ToString(n)

HasCommit(sha) == \E i \in 1..Len(commits) : CommitSha(i) = sha
HasTree(sha) == \E i \in 1..Len(trees) : TreeSha(i) = sha

CommitAt(sha) == commits[CHOOSE i \in 1..Len(commits) : CommitSha(i) = sha]
TreeAt(sha) == trees[CHOOSE i \in 1..Len(trees) : TreeSha(i) = sha]

\* a tree with one path set / removed
PutPath(t, p, c) == [q \in (DOMAIN t) \cup {p} |-> IF q = p THEN c ELSE t[q]]
DropPath(t, p) == [q \in (DOMAIN t) \ {p} |-> t[q]]

\* the entries of a create-tree request laid over the base tree, in order
RECURSIVE Overlay(_, _)
Overlay(t, entries) ==
    IF entries = <<>> THEN t
    ELSE LET e == Head(entries)
         IN  Overlay(IF "content" \in DOMAIN e
                     THEN PutPath(t, e.path, e.content)
                     ELSE DropPath(t, e.path),
                     Tail(entries))

\* a is b or is in b's parent chain
RECURSIVE IsAncestorOrEqual(_, _)
IsAncestorOrEqual(a, b) ==
    IF a = b THEN TRUE
    ELSE IF ~HasCommit(b) \/ CommitAt(b).parents = <<>> THEN FALSE
    ELSE IsAncestorOrEqual(a, CommitAt(b).parents[1])

\* PATCH git/refs/heads/{branch}: a non-forced update must be a fast-forward
UpdateAllowed(body) ==
    /\ HasCommit(body.sha)
    /\ body.force \/ IsAncestorOrEqual(ref, body.sha)

\* the author the remote derives from the credential
Author == [name |-> "github-actions[bot]", date |-> "2025-01-01T00:00:00Z"]

\* the commit the branch starts at
RootTree == (<<"a">> :> "A0") @@ (<<"k">> :> "K0")
RootCommit == [message |-> "initial", tree |-> TreeSha(1), parents |-> <<>>]

\* statuses and bodies the remote answers with
OkStatus == "200"
CreatedStatus == "201"
NotFoundStatus == "404"
RejectStatuses == {"422", "500"}
ErrorBodies == {"", "{\"message\":\"Internal Server Error\"}"}

\* what reading an error response's body gives
BodyReads ==
    { [ok |-> TRUE, text |-> b] : b \in ErrorBodies }
    \cup { [ok |-> FALSE, text |-> "Premature close"] }

NoBody == [ok |-> TRUE, text |-> ""]

\* a success response carrying the sha of the object it is about
Success(status, sha) == [status |-> status, sha |-> sha, read |-> NoBody]

\* the error responses with one of the statuses
Failures(statuses, bodies) ==
    { [status |-> st, sha |-> "", read |-> r] : st \in statuses, r \in bodies }

\* GET git/refs/heads/{branch}
RefResponses == {Success(OkStatus, ref)} \cup Failures({NotFoundStatus}, BodyReads)

\* GET git/commits/{sha}: sha in the response is the commit's tree
CommitResponses(body) ==
    (IF HasCommit(body.sha) THEN {Success(OkStatus, CommitAt(body.sha).tree)} ELSE {})
    \cup Failures({NotFoundStatus}, BodyReads)

\* POST git/trees: the new tree is the entries laid over the base tree
TreeResponses(body) ==
    (IF HasTree(body.base_tree) THEN {Success(CreatedStatus, TreeSha(Len(trees) + 1))} ELSE {})
    \cup Failures(RejectStatuses, BodyReads)

TreesAfter(body, resp) ==
    IF resp.status = CreatedStatus
    THEN Append(trees, Overlay(TreeAt(body.base_tree), body.tree))
    ELSE trees

\* POST git/commits
NewCommitResponses(body) ==
    (IF HasTree(body.tree) THEN {Success(CreatedStatus, CommitSha(Len(commits) + 1))} ELSE {})
    \cup Failures(RejectStatuses, BodyReads)

CommitsAfter(body, resp) ==
    IF resp.status = CreatedStatus THEN Append(commits, body) ELSE commits

\* PATCH git/refs/heads/{branch}
UpdateResponses(body) ==
    (IF UpdateAllowed(body) THEN {Success(OkStatus, body.sha)} ELSE {})
    \cup Failures(RejectStatuses, BodyReads)

RefAfter(body, resp) == IF resp.status = OkStatus THEN body.sha ELSE ref

\* a reference update whose answer is lost: it never reached the remote, or it
\* reached it and was applied if the remote allows it
LostRequestReached(body) == {FALSE} \cup (IF UpdateAllowed(body) THEN {TRUE} ELSE {})

(***************************************************************************)
(* What a tool sends, logs and returns.                                    *)
(***************************************************************************)
\* one fetch: every call carries the bearer credential
Request(kind, tk, body) == [kind |-> kind, auth |-> <<"Bearer ", tk>>, body |-> body]

\* the prefix of the tool's lines on stderr
Tag(t) == IF t = "delete_files" THEN "[delete_files]" ELSE "[commit_files]"

NoOutcome == [ok |-> FALSE, message |-> <<>>]
NoPatch == [seen |-> FALSE, before |-> "", after |-> "", accepted |-> FALSE]
NoCommitData == [sha |-> "", message |-> "", author |-> Author]

\* the Error that leaves the tool through its catch block
Thrown(t, v) == [ok |-> FALSE, message |-> NormalizeError(t, v)]

\* the lines the catch block writes
CatchLog(t, errorMessage) ==
    << <<Tag(t), " FULL ERROR CAUGHT: ">> \o errorMessage,
       <<Tag(t), " Final error message being thrown: ">> \o errorMessage >>

\* the lines commit_files writes on entry
EntryLog(t, tk) ==
    IF IsCommitTool(t)
    THEN << <<Tag(t), " Environment check: GITHUB_TOKEN ",
              IF tk = "" THEN "Missing" ELSE "Present">> >>
    ELSE <<>>

\* the lines written before the reference update is sent
UpdateLog(t, tk, base, tree, commit) ==
    << <<Tag(t), " New commit SHA: ", commit>>,
       <<Tag(t), " Base SHA was: ", base>> >>
    \o IF t = "commit_files_diag"
       THEN << <<Tag(t), " Full request details: Bearer [TOKEN_LENGTH:", ToString(Len(tk)),
                 "] treeSha: ", tree, " commitSha: ", commit, " baseSha: ", base>> >>
       ELSE <<>>

\* the text of an error response as the tool got hold of it
ErrorText(t, read) ==
    IF t = "commit_files_diag"
    THEN IF read.ok
         THEN (IF read.text = "" THEN "No response body" ELSE read.text)
         ELSE "Failed to read response: " \o read.text
    ELSE IF read.ok THEN read.text ELSE "Unable to read error response"

\* a rejection message that also names the created objects
UpdateRejectedMessageWithShas(t, status, read, tree, commit) ==
    <<"Failed to update reference: ", status, " - ", ErrorText(t, read),
      " tree ", tree, " commit ", commit>>

\* the message thrown when the reference update is answered with an error status
UpdateRejectedMessage(t, status, read, tree, commit) ==
    <<"Failed to update reference: ", status, " - ", ErrorText(t, read)>>

\* a network failure reported in the form of a rejected update
UpdateNetworkMessageAsRejected(t, cause) ==
    <<"Failed to update reference: ", IF cause = "" THEN "Unknown fetch error" ELSE cause>>

\* the message thrown when the fetch of the reference update itself fails
UpdateNetworkMessage(t, cause) ==
    IF t = "commit_files_diag"
    THEN <<"Network error during reference update after ", "ms: ",
           IF cause = "" THEN "Unknown fetch error" ELSE cause>>
    ELSE <<"Network error during reference update: ",
           IF cause = "" THEN "Unknown fetch error" ELSE cause>>

\* the lines written when the reference update is answered with an error status
UpdateRejectedLog(t, status, tree, commit) ==
    IF status = "500"
    THEN IF t = "commit_files_diag"
         THEN << <<Tag(t), " Note: Tree (", tree, ") and commit (", commit,
                   ") were created successfully">> >>
         ELSE << <<Tag(t), " This appears to be an internal GitHub error">> >>
    ELSE <<>>

\* a creation error that leaves the response body out
CreateRejectedMessageNoBody(what, status, read) ==
    <<"Failed to create ", what, ": ", status>>

\* the message thrown when creating the tree / the commit is answered with an error
CreateRejectedMessage(what, status, read) ==
    IF read.ok THEN <<"Failed to create ", what, ": ", status, " - ", read.text>>
    ELSE <<read.text>>

\* a result that reports the tree's sha as the commit's
SimplifiedResultSwapped(t, commitData, paths, tree) ==
    [ok |-> TRUE,
     commit |-> [sha |-> tree, message |-> commitData.message,
                 author |-> commitData.author.name, date |-> commitData.author.date],
     key |-> IF t = "delete_files" THEN "deletedFiles" ELSE "files",
     paths |-> paths,
     tree |-> [sha |-> commitData.sha]]

\* a result that leaves the affected paths out
SimplifiedResultNoPaths(t, commitData, paths, tree) ==
    [ok |-> TRUE,
     commit |-> [sha |-> commitData.sha, message |-> commitData.message,
                 author |-> commitData.author.name, date |-> commitData.author.date],
     key |-> IF t = "delete_files" THEN "deletedFiles" ELSE "files",
     paths |-> <<>>,
     tree |-> [sha |-> tree]]

\* the result a tool returns
SimplifiedResult(t, commitData, paths, tree) ==
    [ok |-> TRUE,
     commit |-> [sha |-> commitData.sha, message |-> commitData.message,
                 author |-> commitData.author.name, date |-> commitData.author.date],
     key |-> IF t = "delete_files" THEN "deletedFiles" ELSE "files",
     paths |-> paths,
     tree |-> [sha |-> tree]]

\* what makes a fetch fail before any response
FetchFaults == {"", "socket hang up"}

\* a status check that lets every response pass
ResponseOkAlways(resp) == TRUE

\* response.ok
ResponseOk(resp) == resp.status \in {OkStatus, CreatedStatus}

\* the entry of the responses' record for a fetch that failed
FetchFailed == "fetch failed"

\* a token check that lets an absent token through
TokenNeverMissing(tk) == FALSE

\* !githubToken
TokenMissing(tk) == tk = ""

TokenRequiredMessage == <<"GITHUB_TOKEN environment variable is required">>

\* the server process before it has read its configuration
Starting(env) == [state |-> "starting", env |-> env, tools |-> {}, exitCode |-> 0]

(***************************************************************************)
(* Provider validation of the prepare step.                                *)
(***************************************************************************)
\* an environment variable that is not set
Unset == "<unset>"

\* values USE_BEDROCK, USE_VERTEX and USE_MAX_PLAN are given
EnvValues == {Unset, "true", "false", "1"}
\* values RUNNER_ENVIRONMENT is given
RunnerValues == {Unset, "github-hosted", "self-hosted"}

Envs == [USE_BEDROCK : EnvValues, USE_VERTEX : EnvValues, USE_MAX_PLAN : EnvValues,
         RUNNER_ENVIRONMENT : RunnerValues]

\* a test that takes every non-empty value for an enabled provider
IsTrueTruthy(v) == v \notin {Unset, ""}

\* process.env.X === "true"
IsTrue(v) == v = "true"

\* [useBedrock, useVertex, useMaxPlan].filter(Boolean).length
ProvidersCount(env) ==
    Cardinality({ x \in {"USE_BEDROCK", "USE_VERTEX", "USE_MAX_PLAN"} : IsTrue(env[x]) })

MultipleProvidersMessage ==
    "Cannot use multiple authentication methods simultaneously. Please set only one of: use_bedrock, use_vertex, or use_max_plan."

\* the line validateProviderSelection logs for the provider in use
ProviderLog(env) ==
    IF IsTrue(env.USE_MAX_PLAN)
    THEN "Using Max plan authentication. Ensure Claude Code is pre-authenticated on this self-hosted runner."
    ELSE IF IsTrue(env.USE_BEDROCK) THEN "Using AWS Bedrock authentication."
    ELSE IF IsTrue(env.USE_VERTEX) THEN "Using Google Vertex AI authentication."
    ELSE "Using direct Anthropic API authentication."

\* validateProviderSelection(): what it throws, or what it logs
ValidateProviderSelection(env) ==
    IF ProvidersCount(env) > 1
    THEN [step |-> "threw", error |-> MultipleProvidersMessage, log |-> "", ret |-> ""]
    ELSE [step |-> "validated", error |-> "", log |-> ProviderLog(env), ret |-> ""]

\* a Max plan test that takes every non-empty value for "on"
IsUsingMaxPlanTruthy(env) == IsTrueTruthy(env.USE_MAX_PLAN)

\* isUsingMaxPlan()
IsUsingMaxPlan(env) == env.USE_MAX_PLAN = "true"

\* a runner test that takes everything but "self-hosted" for GitHub-hosted
IsGithubHostedUnlessSelf(v) == v # "self-hosted"

\* runnerEnvironment === "github-hosted"
IsGithubHosted(v) == v = "github-hosted"

MaxPlanRunnerMessage ==
    "Max plan authentication requires a self-hosted runner. GitHub-hosted runners do not have persistent authentication state. Please set up a self-hosted runner with pre-authenticated Claude Code."

\* validateMaxPlanRunner(): what it throws, or what it logs
ValidateMaxPlanRunner(env) ==
    IF ~IsUsingMaxPlan(env)
    THEN [step |-> "runnerPassed", error |-> "", log |-> "", ret |-> ""]
    ELSE IF IsGithubHosted(env.RUNNER_ENVIRONMENT)
    THEN [step |-> "runnerThrew", error |-> MaxPlanRunnerMessage, log |-> "", ret |-> ""]
    ELSE [step |-> "runnerPassed", error |-> "",
          log |-> "Running on self-hosted runner with Max plan authentication.", ret |-> ""]

\* the most times a caller attempts the same operation
MaxAttempts == 2

\* a second invocation about to start
IdlePeer == [pc |-> "idle", base |-> "", commit |-> "", accepted |-> FALSE]

\* no invocation running at the same time
NoPeer == [pc |-> "off", base |-> "", commit |-> "", accepted |-> FALSE]

\* the prepare step not run
NoEnv == [USE_BEDROCK |-> Unset, USE_VERTEX |-> Unset, USE_MAX_PLAN |-> Unset,
          RUNNER_ENVIRONMENT |-> Unset]
NoPrep == [step |-> "off", error |-> "", log |-> "", ret |-> ""]
StartPrep == [step |-> "start", error |-> "", log |-> "", ret |-> ""]


(***************************************************************************)
(* Initial state: a branch with one commit, no tool running.  A behaviour  *)
(* is one invocation of one tool amid the other writers of the branch.     *)
(***************************************************************************)
ToolsIdle ==
    /\ ref = CommitSha(1)
    /\ commits = <<RootCommit>>
    /\ trees = <<RootTree>>
    /\ pc = "idle"
    /\ tool = "commit_files"
    /\ files = <<>>
    /\ message = ""
    /\ token = ""
    /\ processed = <<>>
    /\ baseSha = ""
    /\ baseTreeSha = ""
    /\ reads = <<>>
    /\ treeEntries = <<>>
    /\ treeData = ""
    /\ newCommitData = NoCommitData
    /\ sent = <<>>
    /\ got = <<>>
    /\ log = <<>>
    /\ outcome = NoOutcome
    /\ patchObs = NoPatch
    /\ others = 0
    /\ gotRead = <<>>
    /\ caught = NoCaught
    /\ refHist = {ref}
    /\ earlier = <<>>

Init ==
    /\ ToolsIdle
    /\ peer = NoPeer
    /\ server \in {Starting(env) : env \in Configs}
    /\ penv = NoEnv
    /\ prep = NoPrep

(***************************************************************************)
(* The server process starts: it reads its configuration and either exits  *)
(* or creates the server and registers its tools.                          *)
(***************************************************************************)
Startup ==
    /\ server.state = "starting"
    /\ server' = IF ConfigMissing(server.env)
                 THEN [server EXCEPT !.state = "exited", !.exitCode = 1]
                 ELSE [server EXCEPT !.state = "running", !.tools = Tools]
    /\ UNCHANGED <<remoteVars, pc, argVars, localVars, sent, got, log, outcome, patchObs,
                   others, gotRead, caught, penv, prep, sideVars>>

\* the catch block is reached with a value: lines are written and the
\* normalized Error leaves
ThrowValue(lines, v) ==
    /\ pc' = "threw"
    /\ caught' = v
    /\ outcome' = Thrown(tool, v)
    /\ log' = log \o lines \o CatchLog(tool, ErrorMessageOf(v))

\* throw new Error(errorMessage) inside the handler
ThrowAfter(lines, errorMessage) == ThrowValue(lines, NewError(errorMessage))

(***************************************************************************)
(* A tool is called: the handler runs up to its first await.               *)
(***************************************************************************)
Invoke(t, fs, m, tk) ==
    /\ pc = "idle"
    /\ server.state = "running"
    /\ t \in server.tools
    /\ tool' = t /\ files' = fs /\ message' = m /\ token' = tk
    /\ UNCHANGED <<remoteVars, baseSha, baseTreeSha, reads, treeEntries, treeData,
                   newCommitData, got, gotRead, patchObs, others, hostVars, sideVars>>
    /\ IF TokenMissing(tk)
       THEN /\ pc' = "threw"
            /\ caught' = NewError(TokenRequiredMessage)
            /\ outcome' = Thrown(t, caught')
            /\ log' = EntryLog(t, tk) \o CatchLog(t, TokenRequiredMessage)
            /\ UNCHANGED <<processed, sent>>
       ELSE IF ~IsCommitTool(t) /\ FirstRejected(fs) # 0
       THEN /\ pc' = "threw"
            /\ caught' = NewError(PathError(fs[FirstRejected(fs)]))
            /\ outcome' = Thrown(t, caught')
            /\ log' = CatchLog(t, PathError(fs[FirstRejected(fs)]))
            /\ UNCHANGED <<processed, sent>>
       ELSE /\ pc' = "awaitRef"
            /\ log' = EntryLog(t, tk)
            /\ processed' = [i \in 1..Len(fs) |->
                               IF IsCommitTool(t) THEN ProcessCommitPath(fs[i])
                               ELSE ProcessDeletePath(fs[i])]
            /\ sent' = << Request("GET ref", tk, [branch |-> server.env.branch]) >>
            /\ UNCHANGED <<outcome, caught>>

\* the body of the request the tool is waiting on
Pending == sent[Len(sent)].body

(***************************************************************************)
(* 1. The branch reference is answered.                                    *)
(***************************************************************************)
RefAnswered ==
    /\ pc = "awaitRef"
    /\ UNCHANGED <<hostVars, sideVars, remoteVars, argVars, processed, baseTreeSha, reads, treeEntries,
                   treeData, newCommitData, patchObs, others>>
    /\ \E resp \in RefResponses :
       /\ got' = Append(got, resp.status)
       /\ gotRead' = Append(gotRead, resp.read)
       /\ IF ~ResponseOk(resp)
          THEN /\ ThrowAfter(<<>>, <<"Failed to get branch reference: ", resp.status>>)
               /\ UNCHANGED <<baseSha, sent>>
          ELSE /\ baseSha' = resp.sha
               /\ pc' = "awaitCommit"
               /\ sent' = Append(sent, Request("GET commit", token, [sha |-> baseSha']))
               /\ UNCHANGED <<log, outcome, caught>>

(***************************************************************************)
(* 2. The base commit is answered; commit_files starts reading its files,  *)
(* delete_files builds its entries and posts the tree.                     *)
(***************************************************************************)
DeleteEntries(paths) == [i \in 1..Len(paths) |-> DeleteEntry(paths[i])]

CommitAnswered ==
    /\ pc = "awaitCommit"
    /\ UNCHANGED <<hostVars, sideVars, remoteVars, argVars, processed, baseSha, treeData, newCommitData,
                   patchObs, others>>
    /\ \E resp \in CommitResponses(Pending) :
       /\ got' = Append(got, resp.status)
       /\ gotRead' = Append(gotRead, resp.read)
       /\ IF ~ResponseOk(resp)
          THEN /\ ThrowAfter(<<>>, <<"Failed to get base commit: ", resp.status>>)
               /\ UNCHANGED <<baseTreeSha, reads, treeEntries, sent>>
          ELSE /\ baseTreeSha' = resp.sha
               /\ UNCHANGED <<log, outcome, caught>>
               /\ IF IsCommitTool(tool) /\ processed # <<>>
                  THEN /\ pc' = "awaitReads"
                       /\ reads' = [i \in 1..Len(processed) |-> "pending"]
                       /\ UNCHANGED <<treeEntries, sent>>
                  ELSE /\ pc' = "awaitTree"
                       /\ reads' = <<>>
                       /\ treeEntries' = IF IsCommitTool(tool) THEN <<>>
                                         ELSE DeleteEntries(processed)
                       /\ sent' = Append(sent, Request("POST tree", token,
                                      TreeBody(baseTreeSha', treeEntries')))

(***************************************************************************)
(* 3. One of the concurrently issued file reads of commit_files settles.   *)
(* The first rejection rejects Promise.all; reads still pending then       *)
(* settle without effect on the tool.  When the last one is fulfilled the  *)
(* entries are built in input order and the tree is posted.                *)
(***************************************************************************)
\* a catch that swallows the read error
ReadNeverRejects(r) == FALSE

\* readFile(...).catch(...) rethrows: the read's promise rejects
ReadRejects(r) == ~r.ok

\* a read error that does not say which file
ReadFailedMessageNoPath(fullPath, cause) == <<"Failed to read file: ", cause>>

ReadFailedMessage(fullPath, cause) ==
    <<"Failed to read file '">> \o fullPath \o <<"': ", cause>>

\* entries built in the reverse of the input order
WriteEntriesReversed(paths) ==
    [i \in 1..Len(paths) |->
        WriteEntry(paths[Len(paths) + 1 - i],
                   ReadFile(FullPath(paths[Len(paths) + 1 - i])).content)]

\* a Promise.all that resolves with the first fulfilled read
AnyFulfilled(rs) == \E j \in DOMAIN rs : rs[j] = "fulfilled"

\* Promise.all resolves: every read is fulfilled
AllFulfilled(rs) == \A j \in DOMAIN rs : rs[j] = "fulfilled"

WriteEntries(paths) ==
    [i \in 1..Len(paths) |-> WriteEntry(paths[i], ReadFile(FullPath(paths[i])).content)]

ReadSettled(i) ==
    /\ pc \in {"awaitReads", "threw"}
    /\ i \in DOMAIN reads
    /\ reads[i] = "pending"
    /\ UNCHANGED <<remoteVars, argVars, processed, baseSha, baseTreeSha, treeData,
                   newCommitData, got, gotRead, patchObs, others, hostVars, sideVars>>
    /\ LET fullPath == FullPath(processed[i])
           r == ReadFile(fullPath)
       IN  /\ reads' = [reads EXCEPT ![i] = IF ReadRejects(r) THEN "rejected"
                                            ELSE "fulfilled"]
           /\ IF pc = "threw"
              THEN UNCHANGED <<pc, outcome, caught, log, treeEntries, sent>>
              ELSE IF ReadRejects(r)
              THEN /\ ThrowAfter(<<>>, ReadFailedMessage(fullPath, r.content))
                   /\ UNCHANGED <<treeEntries, sent>>
              ELSE IF AllFulfilled(reads')
              THEN /\ pc' = "awaitTree"
                   /\ treeEntries' = WriteEntries(processed)
                   /\ sent' = Append(sent, Request("POST tree", token,
                                  TreeBody(baseTreeSha, treeEntries')))
                   /\ UNCHANGED <<outcome, caught, log>>
              ELSE UNCHANGED <<pc, outcome, caught, log, treeEntries, sent>>

(***************************************************************************)
(* 4. The create-tree request is answered.                                 *)
(***************************************************************************)
TreeAnswered ==
    /\ pc = "awaitTree"
    /\ UNCHANGED <<hostVars, sideVars, ref, refHist, commits, argVars, processed, baseSha, baseTreeSha, reads,
                   treeEntries, newCommitData, patchObs, others>>
    /\ \E resp \in TreeResponses(Pending) :
       /\ trees' = TreesAfter(Pending, resp)
       /\ got' = Append(got, resp.status)
       /\ gotRead' = Append(gotRead, resp.read)
       /\ IF ~ResponseOk(resp)
          THEN /\ ThrowAfter(<<>>, CreateRejectedMessage("tree", resp.status, resp.read))
               /\ UNCHANGED <<treeData, sent>>
          ELSE /\ treeData' = resp.sha
               /\ pc' = "awaitNewCommit"
               /\ sent' = Append(sent, Request("POST commit", token,
                              CommitBody(message, treeData', baseSha)))
               /\ UNCHANGED <<log, outcome, caught>>

(***************************************************************************)
(* 5. The create-commit request is answered; on success the reference      *)
(* update is sent.                                                         *)
(***************************************************************************)
NewCommitAnswered ==
    /\ pc = "awaitNewCommit"
    /\ UNCHANGED <<hostVars, sideVars, ref, refHist, trees, argVars, processed, baseSha, baseTreeSha, reads,
                   treeEntries, treeData, patchObs, others>>
    /\ \E resp \in NewCommitResponses(Pending) :
       /\ commits' = CommitsAfter(Pending, resp)
       /\ got' = Append(got, resp.status)
       /\ gotRead' = Append(gotRead, resp.read)
       /\ IF ~ResponseOk(resp)
          THEN /\ ThrowAfter(<<>>, CreateRejectedMessage("commit", resp.status, resp.read))
               /\ UNCHANGED <<newCommitData, sent>>
          ELSE /\ newCommitData' = [sha |-> resp.sha, message |-> Pending.message,
                                    author |-> Author]
               /\ pc' = "awaitUpdate"
               /\ log' = log \o UpdateLog(tool, token, baseSha, treeData, resp.sha)
               /\ sent' = Append(sent, Request("PATCH ref", token, UpdateRefBody(resp.sha)))
               /\ UNCHANGED <<outcome, caught>>

(***************************************************************************)
(* 6. The reference update settles: the fetch fails before any response,   *)
(* or the remote answers, having moved the reference or not.               *)
(***************************************************************************)
UpdateFetchFailed ==
    /\ pc = "awaitUpdate"
    /\ UNCHANGED <<hostVars, sideVars, commits, trees, argVars, localVars, sent, others>>
    /\ \E reached \in LostRequestReached(Pending) :
       /\ ref' = IF reached THEN Pending.sha ELSE ref
       /\ refHist' = refHist \cup {ref'}
       /\ patchObs' = IF reached
                      THEN [seen |-> TRUE, before |-> ref, after |-> ref', accepted |-> TRUE]
                      ELSE patchObs
    /\ \E cause \in FetchFaults :
       /\ got' = Append(got, FetchFailed)
       /\ gotRead' = Append(gotRead, NoBody)
       /\ ThrowAfter(<< <<Tag(tool), " FETCH ERROR during reference update: ", cause>> >>,
                     UpdateNetworkMessage(tool, cause))

UpdateAnswered ==
    /\ pc = "awaitUpdate"
    /\ UNCHANGED <<hostVars, sideVars, commits, trees, argVars, localVars, sent, others>>
    /\ \E resp \in UpdateResponses(Pending) :
       /\ ref' = RefAfter(Pending, resp)
       /\ refHist' = refHist \cup {ref'}
       /\ patchObs' = [seen |-> TRUE, before |-> ref, after |-> ref',
                       accepted |-> resp.status = OkStatus]
       /\ got' = Append(got, resp.status)
       /\ gotRead' = Append(gotRead, resp.read)
       /\ IF ~ResponseOk(resp)
          THEN ThrowAfter(UpdateRejectedLog(tool, resp.status, treeData, newCommitData.sha),
                          UpdateRejectedMessage(tool, resp.status, resp.read, treeData,
                                                newCommitData.sha))
          ELSE /\ pc' = "returned"
               /\ outcome' = SimplifiedResult(tool, newCommitData, processed, treeData)
               /\ UNCHANGED <<log, caught>>

(***************************************************************************)
(* A fetch other than the reference update's fails, or something else the  *)
(* handler awaits throws: the value goes to the catch block as it is.      *)
(***************************************************************************)
FetchRejects(v) ==
    /\ pc \in {"awaitRef", "awaitCommit", "awaitTree", "awaitNewCommit"}
    /\ UNCHANGED <<remoteVars, argVars, localVars, sent, patchObs, others, hostVars, sideVars>>
    /\ got' = Append(got, FetchFailed)
    /\ gotRead' = Append(gotRead, NoBody)
    /\ ThrowValue(<<>>, v)

(***************************************************************************)
(* Other writers of the branch.                                            *)
(***************************************************************************)
TestCommitMessage == "Debug: Test commit to reproduce 500 error"

\* another client commits on top of the branch and moves it forward
OtherPush ==
    /\ others < MaxOther
    /\ others' = others + 1
    /\ trees' = Append(trees, PutPath(TreeAt(CommitAt(ref).tree), <<"k">>, "K1"))
    /\ commits' = Append(commits, CommitBody(TestCommitMessage, TreeSha(Len(trees')), ref))
    /\ ref' = CommitSha(Len(commits'))
    /\ refHist' = refHist \cup {ref'}
    /\ UNCHANGED <<pc, argVars, localVars, sent, got, log, outcome, patchObs, gotRead, caught,
                   hostVars, sideVars>>

\* revert-test-commit.ts: the branch is reset to the parent of its tip, forced
RevertTestCommit ==
    /\ CommitAt(ref).message = TestCommitMessage
    /\ CommitAt(ref).parents # <<>>
    /\ UpdateAllowed(RevertRefBody(CommitAt(ref).parents[1]))
    /\ ref' = RevertRefBody(CommitAt(ref).parents[1]).sha
    /\ refHist' = refHist \cup {ref'}
    /\ UNCHANGED <<commits, trees, pc, argVars, localVars, sent, got, log, outcome,
                   patchObs, others, gotRead, caught, hostVars, sideVars>>

Next ==
    \/ Startup
    \/ \E v \in CaughtValues : FetchRejects(v)
    \/ \E t \in Tools, m \in Messages, tk \in Tokens :
          \E fs \in SeqsUpTo(IF IsCommitTool(t) THEN CommitPaths ELSE DeletePaths, MaxFiles) :
             Invoke(t, fs, m, tk)
    \/ RefAnswered
    \/ CommitAnswered
    \/ \E i \in 1..MaxFiles : ReadSettled(i)
    \/ TreeAnswered
    \/ NewCommitAnswered
    \/ UpdateFetchFailed
    \/ UpdateAnswered
    \/ OtherPush
    \/ RevertTestCommit

Spec == Init /\ [][Next]_vars

(***************************************************************************)
(* The tools over a wider set of paths, one invocation with the branch     *)
(* left alone by other writers.                                            *)
(***************************************************************************)
PathNext ==
    \/ Startup
    \/ \E t \in Tools, tk \in Tokens :
          \E fs \in SeqsUpTo(IF IsCommitTool(t) THEN WideCommitPaths ELSE WideDeletePaths,
                             MaxPathFiles) :
             Invoke(t, fs, "update docs", tk)
    \/ RefAnswered
    \/ CommitAnswered
    \/ \E i \in 1..MaxPathFiles : ReadSettled(i)
    \/ TreeAnswered
    \/ NewCommitAnswered
    \/ UpdateFetchFailed
    \/ UpdateAnswered

PathSpec == Init /\ [][PathNext]_vars

(***************************************************************************)
(* The caller re-attempts the operation after a rejected reference update, *)
(* with the same arguments; nobody else writes to the branch.              *)
(***************************************************************************)
ConfiguredInit ==
    /\ ToolsIdle
    /\ server = Starting([owner |-> "o", repo |-> "n", branch |-> "b"])
    /\ penv = NoEnv
    /\ prep = NoPrep

\* the ended invocation as the caller remembers it
Attempt ==
    [tool |-> tool, files |-> files, message |-> message, token |-> token,
     baseSha |-> baseSha, tree |-> treeData, created |-> newCommitData.sha,
     status |-> got[Len(got)]]

Reattempt ==
    /\ pc = "threw"
    /\ sent # <<>> /\ sent[Len(sent)].kind = "PATCH ref"
    /\ got[Len(got)] \in RejectStatuses
    /\ Len(earlier) < MaxAttempts - 1
    /\ earlier' = Append(earlier, Attempt)
    /\ pc' = "idle"
    /\ processed' = <<>> /\ baseSha' = "" /\ baseTreeSha' = "" /\ reads' = <<>>
    /\ treeEntries' = <<>> /\ treeData' = "" /\ newCommitData' = NoCommitData
    /\ sent' = <<>> /\ got' = <<>> /\ gotRead' = <<>> /\ log' = <<>>
    /\ outcome' = NoOutcome /\ patchObs' = NoPatch /\ caught' = NoCaught
    /\ UNCHANGED <<remoteVars, argVars, others, hostVars, peer>>

\* the arguments are free on the first attempt and the same on the next ones
SameAsBefore(t, fs, m, tk) ==
    earlier # <<>> =>
        /\ t = earlier[Len(earlier)].tool /\ fs = earlier[Len(earlier)].files
        /\ m = earlier[Len(earlier)].message /\ tk = earlier[Len(earlier)].token

RetryNext ==
    \/ Startup
    \/ \E t \in Tools, m \in Messages, tk \in Tokens :
          \E fs \in SeqsUpTo(IF IsCommitTool(t) THEN CommitPaths ELSE DeletePaths, MaxFiles) :
             SameAsBefore(t, fs, m, tk) /\ Invoke(t, fs, m, tk)
    \/ RefAnswered
    \/ CommitAnswered
    \/ \E i \in 1..MaxFiles : ReadSettled(i)
    \/ TreeAnswered
    \/ NewCommitAnswered
    \/ UpdateFetchFailed
    \/ UpdateAnswered
    \/ Reattempt

RetryInit == ConfiguredInit /\ peer = NoPeer

RetrySpec == RetryInit /\ [][RetryNext]_vars

(***************************************************************************)
(* Two invocations on the same branch at the same time.  The second one is *)
(* followed through the steps that meet the first one in the remote: it    *)
(* reads the reference, creates its tree and commit, updates the           *)
(* reference.                                                              *)
(***************************************************************************)
PeerEntries == << DeleteEntry(<<"k">>) >>

PeerReadRef ==
    /\ peer.pc = "idle"
    /\ peer' = [peer EXCEPT !.pc = "read", !.base = ref]
    /\ UNCHANGED <<remoteVars, pc, argVars, localVars, sent, got, log, outcome, patchObs,
                   others, gotRead, caught, hostVars, earlier>>

PeerCreateObjects ==
    /\ peer.pc = "read"
    /\ trees' = Append(trees, Overlay(TreeAt(CommitAt(peer.base).tree), PeerEntries))
    /\ commits' = Append(commits, CommitBody("remove k", TreeSha(Len(trees')), peer.base))
    /\ peer' = [peer EXCEPT !.pc = "created", !.commit = CommitSha(Len(commits'))]
    /\ UNCHANGED <<ref, refHist, pc, argVars, localVars, sent, got, log, outcome, patchObs,
                   others, gotRead, caught, hostVars, earlier>>

PeerUpdateRef ==
    /\ peer.pc = "created"
    /\ \E resp \in UpdateResponses(UpdateRefBody(peer.commit)) :
       /\ ref' = RefAfter(UpdateRefBody(peer.commit), resp)
       /\ refHist' = refHist \cup {ref'}
       /\ peer' = [peer EXCEPT !.pc = "done", !.accepted = resp.status = OkStatus]
    /\ UNCHANGED <<commits, trees, pc, argVars, localVars, sent, got, log, outcome, patchObs,
                   others, gotRead, caught, hostVars, earlier>>

ConcurrentNext ==
    \/ Startup
    \/ \E t \in Tools, m \in Messages, tk \in Tokens :
          \E fs \in SeqsUpTo(IF IsCommitTool(t) THEN CommitPaths ELSE DeletePaths, MaxFiles) :
             Invoke(t, fs, m, tk)
    \/ RefAnswered
    \/ CommitAnswered
    \/ \E i \in 1..MaxFiles : ReadSettled(i)
    \/ TreeAnswered
    \/ NewCommitAnswered
    \/ UpdateFetchFailed
    \/ UpdateAnswered
    \/ PeerReadRef
    \/ PeerCreateObjects
    \/ PeerUpdateRef

ConcurrentInit == ConfiguredInit /\ peer = IdlePeer

ConcurrentSpec == ConcurrentInit /\ [][ConcurrentNext]_vars

(***************************************************************************)
(* The same tool call made twice in the same situation, the second time    *)
(* with any credential: the first run is kept, the remote and the handler  *)
(* start over.  Answers come from the remote; transport faults are left    *)
(* out, so that the statuses and bodies received are all a run was given.  *)
(***************************************************************************)
\* the longest list of paths in these runs
MaxRunFiles == 1

\* two credentials, of different lengths
RunTokens == {"ghs_tok", "ghp_token2"}

\* an ended run: what it was called with, what it was answered, what it
\* wrote to stderr and what left it
Run ==
    [tool |-> tool, files |-> files, message |-> message, token |-> token,
     got |-> got, gotRead |-> gotRead, reads |-> reads, log |-> log, outcome |-> outcome]

RunAgain ==
    /\ pc \in {"threw", "returned"}
    /\ earlier = <<>>
    /\ earlier' = <<Run>>
    /\ ref' = CommitSha(1) /\ commits' = <<RootCommit>> /\ trees' = <<RootTree>>
    /\ refHist' = {CommitSha(1)}
    /\ pc' = "idle"
    /\ processed' = <<>> /\ baseSha' = "" /\ baseTreeSha' = "" /\ reads' = <<>>
    /\ treeEntries' = <<>> /\ treeData' = "" /\ newCommitData' = NoCommitData
    /\ sent' = <<>> /\ got' = <<>> /\ gotRead' = <<>> /\ log' = <<>>
    /\ outcome' = NoOutcome /\ patchObs' = NoPatch /\ caught' = NoCaught
    /\ UNCHANGED <<argVars, others, hostVars, peer>>

\* the second call differs from the first in the credential at most
SameButToken(t, fs, m) ==
    earlier # <<>> =>
        t = earlier[1].tool /\ fs = earlier[1].files /\ m = earlier[1].message

TwoRunNext ==
    \/ Startup
    \/ \E t \in Tools, tk \in RunTokens :
          \E fs \in SeqsUpTo(IF IsCommitTool(t) THEN CommitPaths ELSE DeletePaths, MaxRunFiles) :
             SameButToken(t, fs, "update docs") /\ Invoke(t, fs, "update docs", tk)
    \/ RefAnswered
    \/ CommitAnswered
    \/ \E i \in 1..MaxRunFiles : ReadSettled(i)
    \/ TreeAnswered
    \/ NewCommitAnswered
    \/ UpdateAnswered
    \/ RunAgain

TwoRunInit == ConfiguredInit /\ peer = NoPeer

TwoRunSpec == TwoRunInit /\ [][TwoRunNext]_vars

(***************************************************************************)
(* The prepare entrypoint: run() of prepare.ts, one step per call it makes *)
(* or awaits.  What the functions it imports return or throw is open.      *)
(***************************************************************************)
\* the environment run() starts in
PrepareEnvs ==
    [USE_BEDROCK : {Unset, "true"}, USE_VERTEX : {Unset, "true"},
     USE_MAX_PLAN : {Unset, "true"}, RUNNER_ENVIRONMENT : {Unset, "github-hosted"},
     OVERRIDE_GITHUB_TOKEN : {Unset, "", "ovr_tok"}, GITHUB_TOKEN : {Unset, "", "ghs_tok"}]

\* an awaited function returns or throws; one with a boolean result may return false
Returns == {"ok", "threw"}
BoolReturns == {"ok", "false", "threw"}

StartRun ==
    [step |-> "start", calls |-> <<>>, token |-> "", failed |-> "", exit |-> "running",
     log |-> "", outputs |-> {}, claudeBranch |-> FALSE]

\* the two variables taken in the other order: b || a || ""
SecondSet(a, b) == IF b \notin {Unset, ""} THEN b ELSE IF a \notin {Unset, ""} THEN a ELSE ""

\* a || b || "" over environment variables
FirstSet(a, b) == IF a \notin {Unset, ""} THEN a ELSE IF b \notin {Unset, ""} THEN b ELSE ""

\* the call is made and its result noted
Called(p, name, r) == [p EXCEPT !.calls = Append(@, [name |-> name, result |-> r])]

\* catch (error): core.setFailed, process.exit(1)
Failed(p, msg) ==
    [p EXCEPT !.step = "failed", !.exit = "1",
              !.failed = "Prepare step failed with error: Error: " \o msg]

\* the call is made; its result decides whether run() goes on
Awaited(p, name, r, next) ==
    IF r = "threw" THEN Failed(Called(p, name, r), name \o " failed")
    ELSE [Called(p, name, r) EXCEPT !.step = next]

OnlyPrepChanges ==
    UNCHANGED <<remoteVars, pc, argVars, localVars, sent, got, log, outcome, patchObs,
                others, gotRead, caught, server, penv, sideVars>>

\* a permission test that lets every actor through
WriteDeniedNever(r) == FALSE

\* !hasWritePermissions
WriteDenied(r) == r = "false"

\* a trigger test that finds a trigger in every event
TriggerAlwaysFound(r) == FALSE

\* !containsTrigger
NoTrigger(r) == r = "false"

PrepareInit ==
    /\ ToolsIdle
    /\ peer = NoPeer
    /\ server = Starting([owner |-> "o", repo |-> "n", branch |-> "b"])
    /\ penv \in PrepareEnvs
    /\ prep = StartRun

\* step 1: validateProviderSelection(); validateMaxPlanRunner()
RunValidation ==
    /\ prep.step = "start"
    /\ OnlyPrepChanges
    /\ LET v == ValidateProviderSelection(penv)
           w == ValidateMaxPlanRunner(penv)
       IN  prep' =
             IF v.step = "threw"
             THEN Failed(Called(prep, "validateProviderSelection", "threw"), v.error)
             ELSE IF w.step = "runnerThrew"
             THEN Failed(Called(Called(prep, "validateProviderSelection", "ok"),
                                "validateMaxPlanRunner", "threw"), w.error)
             ELSE [Called(Called(prep, "validateProviderSelection", "ok"),
                          "validateMaxPlanRunner", "ok") EXCEPT !.step = "token"]

\* step 2: the GitHub token, from the environment for Max plan, else exchanged
SetupToken ==
    /\ prep.step = "token"
    /\ OnlyPrepChanges
    /\ IF IsUsingMaxPlan(penv)
       THEN LET tk == FirstSet(penv.OVERRIDE_GITHUB_TOKEN, penv.GITHUB_TOKEN)
            IN  prep' =
                  IF tk = ""
                  THEN Failed(Called(prep, "maxPlanToken", "threw"),
                              "GitHub token is required when using Max plan authentication")
                  ELSE [Called(prep, "maxPlanToken", "ok")
                           EXCEPT !.step = "context", !.token = tk]
       ELSE \E r \in Returns :
               prep' = [Awaited(prep, "setupGitHubToken", r, "context")
                           EXCEPT !.token = IF r = "ok" THEN "exchanged_tok" ELSE ""]

\* createOctokit(githubToken); step 3: parseGitHubContext()
ParseContext ==
    /\ prep.step = "context"
    /\ OnlyPrepChanges
    /\ \E r \in Returns : prep' = Awaited(prep, "parseGitHubContext", r, "permissions")

\* step 4: checkWritePermissions
CheckWritePermissions ==
    /\ prep.step = "permissions"
    /\ OnlyPrepChanges
    /\ \E r \in BoolReturns :
          prep' = IF WriteDenied(r)
                  THEN Failed(Called(prep, "checkWritePermissions", r),
                              "Actor does not have write permissions to the repository")
                  ELSE Awaited(prep, "checkWritePermissions", r, "trigger")

\* step 5: checkTriggerAction; without a trigger run() returns
CheckTrigger ==
    /\ prep.step = "trigger"
    /\ OnlyPrepChanges
    /\ \E r \in BoolReturns :
          prep' = IF NoTrigger(r)
                  THEN [Called(prep, "checkTriggerAction", r)
                           EXCEPT !.step = "done", !.exit = "0",
                                  !.log = "No trigger found, skipping remaining steps"]
                  ELSE Awaited(prep, "checkTriggerAction", r, "actor")

\* step 6: checkHumanActor
CheckHumanActor ==
    /\ prep.step = "actor"
    /\ OnlyPrepChanges
    /\ \E r \in Returns : prep' = Awaited(prep, "checkHumanActor", r, "comment")

\* step 7: createInitialComment
CreateInitialComment ==
    /\ prep.step = "comment"
    /\ OnlyPrepChanges
    /\ \E r \in Returns : prep' = Awaited(prep, "createInitialComment", r, "fetch")

\* step 8: fetchGitHubData
FetchGitHubData ==
    /\ prep.step = "fetch"
    /\ OnlyPrepChanges
    /\ \E r \in Returns : prep' = Awaited(prep, "fetchGitHubData", r, "branch")

\* step 9: setupBranch, which may have created a branch
SetupBranch ==
    /\ prep.step = "branch"
    /\ OnlyPrepChanges
    /\ \E r \in Returns, created \in BOOLEAN :
          prep' = [Awaited(prep, "setupBranch", r,
                           IF created THEN "updateComment" ELSE "prompt")
                      EXCEPT !.claudeBranch = (r = "ok" /\ created)]

\* step 10: updateTrackingComment, only when a branch was created
UpdateTrackingComment ==
    /\ prep.step = "updateComment"
    /\ OnlyPrepChanges
    /\ \E r \in Returns : prep' = Awaited(prep, "updateTrackingComment", r, "prompt")

\* step 11: createPrompt
CreatePrompt ==
    /\ prep.step = "prompt"
    /\ OnlyPrepChanges
    /\ \E r \in Returns : prep' = Awaited(prep, "createPrompt", r, "mcp")

\* step 12: prepareMcpConfig and core.setOutput("mcp_config", ...)
PrepareMcpConfig ==
    /\ prep.step = "mcp"
    /\ OnlyPrepChanges
    /\ \E r \in Returns :
          prep' = IF r = "threw" THEN Awaited(prep, "prepareMcpConfig", r, "done")
                  ELSE [Awaited(prep, "prepareMcpConfig", r, "done")
                           EXCEPT !.outputs = {"mcp_config"}, !.exit = "0"]

PrepareNext ==
    \/ RunValidation
    \/ SetupToken
    \/ ParseContext
    \/ CheckWritePermissions
    \/ CheckTrigger
    \/ CheckHumanActor
    \/ CreateInitialComment
    \/ FetchGitHubData
    \/ SetupBranch
    \/ UpdateTrackingComment
    \/ CreatePrompt
    \/ PrepareMcpConfig

PrepareSpec == PrepareInit /\ [][PrepareNext]_vars

(***************************************************************************)
(* The provider validation functions, each applied to every environment.   *)
(***************************************************************************)
ProviderInit ==
    /\ ToolsIdle
    /\ peer = NoPeer
    /\ server = Starting([owner |-> "o", repo |-> "n", branch |-> "b"])
    /\ penv \in Envs
    /\ prep = StartPrep

RunValidateProviderSelection ==
    /\ prep.step = "start"
    /\ prep' = ValidateProviderSelection(penv)
    /\ UNCHANGED <<remoteVars, pc, argVars, localVars, sent, got, log, outcome, patchObs,
                   others, gotRead, caught, server, penv, sideVars>>

RunValidateMaxPlanRunner ==
    /\ prep.step = "start"
    /\ prep' = ValidateMaxPlanRunner(penv)
    /\ UNCHANGED <<remoteVars, pc, argVars, localVars, sent, got, log, outcome, patchObs,
                   others, gotRead, caught, server, penv, sideVars>>

RunIsUsingMaxPlan ==
    /\ prep.step = "start"
    /\ prep' = [step |-> "asked", error |-> "", log |-> "",
                ret |-> IF IsUsingMaxPlan(penv) THEN "true" ELSE "false"]
    /\ UNCHANGED <<remoteVars, pc, argVars, localVars, sent, got, log, outcome, patchObs,
                   others, gotRead, caught, server, penv, sideVars>>

ProviderNext ==
    \/ RunValidateProviderSelection
    \/ RunValidateMaxPlanRunner
    \/ RunIsUsingMaxPlan

ProviderSpec == ProviderInit /\ [][ProviderNext]_vars


(***************************************************************************)
(* Properties.                                                             *)
(***************************************************************************)
SentKinds == { sent[i].kind : i \in DOMAIN sent }
Mentions(text, part) == \E i \in DOMAIN text : text[i] = part
Logged(part) == \E l \in DOMAIN log : Mentions(log[l], part)
UpdateFailed == pc = "threw" /\ sent # <<>> /\ sent[Len(sent)].kind = "PATCH ref"
Absolute(p) == StartsWith(p, <<"/">>)
\* p names the working directory or something below it
InsideCwd(p) == p = Cwd \/ StartsWith(p, Cwd \o <<"/">>)

\* C1: when commit_files returns success, the reference update left the branch at
\* the commit it created; that commit's only parent is the sha read in step 1, and
\* its tree is the base tree with every given path holding the content of the
\* local file and every other path as in the base tree.
C1_CommitIsOverlayOnBase ==
    (pc = "returned" /\ IsCommitTool(tool)) =>
        LET sha == outcome.commit.sha
            given == { processed[i] : i \in DOMAIN processed }
        IN  /\ patchObs.accepted /\ patchObs.after = sha
            /\ HasCommit(sha) /\ HasCommit(baseSha) /\ sha # baseSha
            /\ CommitAt(sha).parents = <<baseSha>>
            /\ LET base == TreeAt(CommitAt(baseSha).tree)
                   new == TreeAt(CommitAt(sha).tree)
               IN  /\ \A p \in given :
                         /\ p \in DOMAIN new
                         /\ new[p] = ReadFile(Join(REPO_DIR, p)).content
                   /\ \A q \in ((DOMAIN new) \cup (DOMAIN base)) \ given :
                         q \in DOMAIN new /\ q \in DOMAIN base /\ new[q] = base[q]

C1_Witness ==
    /\ pc = "returned" /\ IsCommitTool(tool) /\ files = << <<"/", "a">> >>
    /\ TreeAt(CommitAt(outcome.commit.sha).tree)[<<"a">>] = "A1"
    /\ TreeAt(CommitAt(baseSha).tree)[<<"a">>] = "A0"
    /\ TreeAt(CommitAt(baseSha).tree)[<<"k">>] = "K1"

\* C2: when delete_files returns success, the reference update left the branch at
\* the commit it created; that commit's only parent is the sha read in step 1, and
\* its tree has none of the given paths and is the base tree everywhere else.
C2_DeleteIsBaseWithoutPaths ==
    (pc = "returned" /\ tool = "delete_files") =>
        LET sha == outcome.commit.sha
            given == { processed[i] : i \in DOMAIN processed }
        IN  /\ patchObs.accepted /\ patchObs.after = sha
            /\ HasCommit(sha) /\ HasCommit(baseSha) /\ sha # baseSha
            /\ CommitAt(sha).parents = <<baseSha>>
            /\ LET base == TreeAt(CommitAt(baseSha).tree)
                   new == TreeAt(CommitAt(sha).tree)
               IN  /\ \A p \in given : p \notin DOMAIN new
                   /\ \A q \in ((DOMAIN new) \cup (DOMAIN base)) \ given :
                         q \in DOMAIN new /\ q \in DOMAIN base /\ new[q] = base[q]

C2_Witness ==
    /\ pc = "returned" /\ tool = "delete_files"
    /\ files = << <<"/", "r", "/", "a">> >>
    /\ <<"a">> \in DOMAIN TreeAt(CommitAt(baseSha).tree)
    /\ DOMAIN TreeAt(CommitAt(outcome.commit.sha).tree) = { <<"k">> }

\* C3 as stated: whenever the remote handles the reference update while the branch
\* holds a value other than the baseSha read in step 1, it rejects the update and
\* the branch keeps that value.
C3_AnyMoveIsRejected ==
    (patchObs.seen /\ patchObs.before # baseSha) =>
        (~patchObs.accepted /\ patchObs.after = patchObs.before)

\* C3 amended: whenever the remote handles the reference update while the branch
\* holds a value that is neither baseSha nor an ancestor of baseSha, it rejects the
\* update, the branch keeps that value and the tool throws.
C3_DivergedMoveIsRejected ==
    (patchObs.seen /\ ~IsAncestorOrEqual(patchObs.before, baseSha)) =>
        (~patchObs.accepted /\ patchObs.after = patchObs.before /\ pc = "threw")

C3_Witness ==
    /\ patchObs.seen /\ ~IsAncestorOrEqual(patchObs.before, baseSha)
    /\ IsAncestorOrEqual(baseSha, patchObs.before)
    /\ ref = patchObs.before /\ pc = "threw"

C5_UnreadableFileNoMutation ==
    (IsCommitTool(tool) /\ pc # "idle"
       /\ \E i \in DOMAIN files :
             ~ReadFile(Join(REPO_DIR, ProcessCommitPath(files[i]))).ok) =>
        /\ pc # "returned"
        /\ SentKinds \subseteq {"GET ref", "GET commit"}

C5_Witness ==
    /\ IsCommitTool(tool) /\ pc = "threw" /\ Len(files) = 2
    /\ files[1] = <<"m">> /\ files[2] = <<"a">>
    /\ reads = <<"rejected", "fulfilled">>
    /\ Len(sent) = 2

\* C6: delete_files called with a leading-slash path that is not the working
\* directory or below it throws before anything is sent to the remote.
C6_OutsidePathRejected ==
    (tool = "delete_files" /\ pc # "idle"
       /\ \E i \in DOMAIN files : Absolute(files[i]) /\ ~InsideCwd(files[i])) =>
        (pc = "threw" /\ sent = <<>>)

\* C7: when the create-tree or the create-commit request is answered with an error
\* status, the tool throws, no reference update is sent and the remote never
\* handles one for this invocation.
C7_ObjectRejectedNoRefUpdate ==
    \A i \in DOMAIN got :
        (sent[i].kind \in {"POST tree", "POST commit"} /\ got[i] \in RejectStatuses) =>
            /\ pc = "threw"
            /\ "PATCH ref" \notin SentKinds
            /\ ~patchObs.seen

C7_Witness ==
    /\ pc = "threw" /\ Len(sent) = 4 /\ sent[4].kind = "POST commit"
    /\ got[4] = "422" /\ HasTree(treeData) /\ ref = baseSha

\* C8: no call of the protocol is sent twice in an invocation; a call that fails is
\* the last one sent and ends the invocation with an Error; an invocation that has
\* ended has no request outstanding.
C8_NoRetry ==
    /\ \A i, j \in DOMAIN sent : i # j => sent[i].kind # sent[j].kind
    /\ \A i \in DOMAIN got :
          got[i] \notin {OkStatus, CreatedStatus} => (i = Len(sent) /\ pc = "threw")
    /\ pc \in {"threw", "returned"} => Len(got) = Len(sent)

C8_Witness ==
    /\ pc = "threw" /\ Len(sent) = 5 /\ got[5] = "500"
    /\ HasCommit(newCommitData.sha) /\ ref = baseSha

\* C9: every reference update a tool sends carries force = false and the sha of
\* the commit its create-commit call returned, a commit with the caller's message
\* and baseSha as only parent.
C9_UpdateNeverForced ==
    \A i \in DOMAIN sent :
        sent[i].kind = "PATCH ref" =>
            /\ sent[i].body.force = FALSE
            /\ sent[i].body.sha = newCommitData.sha
            /\ HasCommit(newCommitData.sha)
            /\ CommitAt(newCommitData.sha).parents = <<baseSha>>
            /\ CommitAt(newCommitData.sha).message = message

C9_Witness ==
    /\ pc = "awaitUpdate" /\ sent[Len(sent)].kind = "PATCH ref"
    /\ tool = "delete_files" /\ ref # baseSha

Form(msg) == IF msg = <<>> THEN "" ELSE msg[1]
RejectedHead == "Failed to update reference: "
NetworkHeads == {"Network error during reference update: ",
                 "Network error during reference update after "}

\* C11: a reference update whose fetch failed and one answered with a non-success
\* status leave the tool with Errors of different message forms: the first begins
\* "Network error during reference update", the second "Failed to update
\* reference: ", and neither outcome ever carries the other's form.
C11_NetworkFailureDistinguishable ==
    UpdateFailed =>
        /\ got[Len(got)] = FetchFailed <=> Form(outcome.message) \in NetworkHeads
        /\ got[Len(got)] \in RejectStatuses <=> Form(outcome.message) = RejectedHead
        /\ got[Len(got)] = FetchFailed \/ got[Len(got)] \in RejectStatuses

C11_Witness ==
    /\ UpdateFailed /\ got[Len(got)] = FetchFailed
    /\ Form(outcome.message) \in NetworkHeads /\ ~patchObs.seen

\* the stages whose failure C12 is about, and an error status answered at one
StagedKinds == {"GET ref", "GET commit", "POST tree", "POST commit"}
StageFailedAt(i) ==
    /\ i \in DOMAIN got /\ sent[i].kind \in StagedKinds
    /\ got[i] \in {NotFoundStatus} \cup RejectStatuses
StageHead(kind) ==
    CASE kind = "GET ref" -> <<"Failed to get branch reference: ">>
      [] kind = "GET commit" -> <<"Failed to get base commit: ">>
      [] kind = "POST tree" -> <<"Failed to create ", "tree", ": ">>
      [] OTHER -> <<"Failed to create ", "commit", ": ">>

NonEmptyText(msg) == \E i \in DOMAIN msg : msg[i] # ""
\* the caught value gives no message: an Error with an empty message, an empty
\* string, an object, undefined
NoMessage(v) == v.message = <<>> /\ v.kind \in {"Error", "string", "object", "undefined"}
FallbackHead(t) ==
    IF t = "delete_files" THEN "Failed to delete files: " ELSE "Failed to commit files: "

C14_MissingTokenFailsFast ==
    (pc # "idle" /\ token = "") =>
        /\ pc = "threw"
        /\ outcome.message = TokenRequiredMessage
        /\ sent = <<>> /\ got = <<>>

C14_Witness ==
    /\ pc = "threw" /\ token = "" /\ tool = "delete_files" /\ files # <<>>
    /\ sent = <<>> /\ outcome.message = TokenRequiredMessage

\* C15 as stated: every path commit_files submits in a tree entry is relative to
\* the repository root: it does not begin with "/" and, resolved against the
\* root, stays inside it, whatever the input path was.
C15_CommitPathsRepoRelative ==
    \A i \in DOMAIN sent :
        (sent[i].kind = "POST tree" /\ IsCommitTool(tool)) =>
            \A k \in DOMAIN sent[i].body.tree :
                /\ ~Absolute(sent[i].body.tree[k].path)
                /\ InsideCwd(Join(REPO_DIR, sent[i].body.tree[k].path))

\* C16 as stated: for every leading-slash path delete_files accepts, the path it
\* submits is the input with the working directory's prefix removed, and it is
\* a non-empty path relative to the repository root.
C16_DeletePathCwdStripped ==
    \A i \in DOMAIN sent :
        (sent[i].kind = "POST tree" /\ tool = "delete_files") =>
            \A k \in DOMAIN files :
                Absolute(files[k]) =>
                    /\ sent[i].body.tree[k].path # <<>>
                    /\ ~Absolute(sent[i].body.tree[k].path)
                    /\ files[k] = Cwd \o <<"/">> \o sent[i].body.tree[k].path

\* the reference update has been sent and is the last request
UpdateSent == sent # <<>> /\ sent[Len(sent)].kind = "PATCH ref"

\* C17: the reference update goes Idle -> RequestSent -> one of Confirmed,
\* Rejected, TransportFailed.  It is sent at most once and nothing is sent after
\* it; while it is unanswered the tool waits; once it has settled the tool has
\* ended in exactly one of the three terminal states (so RequestSent is never
\* entered again): Confirmed with the success result, Rejected and
\* TransportFailed with an Error.
C17_UpdateProtocolStates ==
    /\ Cardinality({ i \in DOMAIN sent : sent[i].kind = "PATCH ref" }) <= 1
    /\ "PATCH ref" \in SentKinds => UpdateSent
    /\ pc = "awaitUpdate" <=> (UpdateSent /\ Len(got) = Len(sent) - 1)
    /\ (UpdateSent /\ pc # "awaitUpdate") =>
          /\ Len(got) = Len(sent)
          /\ \/ /\ got[Len(got)] = OkStatus
                /\ pc = "returned" /\ outcome.ok /\ patchObs.seen /\ patchObs.accepted
             \/ /\ got[Len(got)] \in RejectStatuses
                /\ pc = "threw" /\ ~outcome.ok /\ patchObs.seen /\ ~patchObs.accepted
             \/ /\ got[Len(got)] = FetchFailed
                /\ pc = "threw" /\ ~outcome.ok

C17_Witness ==
    /\ UpdateSent /\ pc = "threw" /\ got[Len(got)] = "422"
    /\ patchObs.seen /\ ~patchObs.accepted /\ ~outcome.ok

\* the path a tool submits for an input path
Normalized(t, p) == IF IsCommitTool(t) THEN ProcessCommitPath(p) ELSE ProcessDeletePath(p)

\* C18: a success result carries the sha of the commit the create-commit call
\* returned with that commit's message, author name and date, the sha of the tree
\* the create-tree call returned, and the normalized input paths in input order,
\* under "files" for commit_files and "deletedFiles" for delete_files.
C18_ResultCarriesCreatedObjects ==
    pc = "returned" =>
        /\ outcome.ok
        /\ HasCommit(outcome.commit.sha)
        /\ CommitAt(outcome.commit.sha) = sent[4].body
        /\ outcome.commit.message = message
        /\ outcome.commit.author = Author.name
        /\ outcome.commit.date = Author.date
        /\ HasTree(outcome.tree.sha)
        /\ outcome.tree.sha = CommitAt(outcome.commit.sha).tree
        /\ TreeAt(outcome.tree.sha) = Overlay(TreeAt(baseTreeSha), sent[3].body.tree)
        /\ outcome.paths = [i \in 1..Len(files) |-> Normalized(tool, files[i])]
        /\ outcome.key = IF tool = "delete_files" THEN "deletedFiles" ELSE "files"

C18_Witness ==
    /\ pc = "returned" /\ tool = "delete_files" /\ outcome.key = "deletedFiles"
    /\ Len(files) = 2 /\ files[1] # files[2] /\ Absolute(files[1])
    /\ outcome.paths[1] = <<"a">>

\* C19: when REPO_OWNER, REPO_NAME or BRANCH_NAME is missing the server process
\* exits with a failure code; no tool is ever registered, no tool runs and no
\* request is sent to the remote.
C19_MissingConfigExitsBeforeTools ==
    (server.env.owner = "" \/ server.env.repo = "" \/ server.env.branch = "") =>
        /\ server.state \in {"starting", "exited"}
        /\ server.state = "exited" => server.exitCode # 0
        /\ server.tools = {}
        /\ pc = "idle" /\ sent = <<>>

C19_Witness ==
    /\ server.state = "exited" /\ server.exitCode = 1
    /\ server.env.owner # "" /\ server.env.repo # "" /\ server.env.branch = ""
    /\ server.tools = {} /\ sent = <<>>

\* at least two of the three provider switches are the string "true"
TwoProvidersOn ==
    \/ penv.USE_BEDROCK = "true" /\ penv.USE_VERTEX = "true"
    \/ penv.USE_BEDROCK = "true" /\ penv.USE_MAX_PLAN = "true"
    \/ penv.USE_VERTEX = "true" /\ penv.USE_MAX_PLAN = "true"

\* C20: validateProviderSelection throws "Cannot use multiple authentication
\* methods simultaneously..." exactly when at least two of USE_BEDROCK,
\* USE_VERTEX and USE_MAX_PLAN are the string "true"; with none or one it
\* returns without throwing.
C20_ThrowsIffTwoProviders ==
    prep.step \in {"threw", "validated"} =>
        /\ prep.step = "threw" <=> TwoProvidersOn
        /\ prep.step = "threw" => prep.error = MultipleProvidersMessage
        /\ prep.step = "validated" => prep.error = ""

C20_Witness ==
    /\ prep.step = "threw" /\ prep.error = MultipleProvidersMessage
    /\ penv.USE_BEDROCK = "true" /\ penv.USE_MAX_PLAN = "true"
    /\ penv.USE_VERTEX = "false"

\* C21: validateMaxPlanRunner throws "Max plan authentication requires a
\* self-hosted runner..." exactly when USE_MAX_PLAN is "true" and
\* RUNNER_ENVIRONMENT is "github-hosted"; it returns when Max plan is not in use
\* and when it is in use with RUNNER_ENVIRONMENT unset or "self-hosted".
C21_RunnerThrowsIffMaxPlanOnHosted ==
    prep.step \in {"runnerThrew", "runnerPassed"} =>
        /\ prep.step = "runnerThrew" <=>
              (penv.USE_MAX_PLAN = "true" /\ penv.RUNNER_ENVIRONMENT = "github-hosted")
        /\ prep.step = "runnerThrew" => prep.error = MaxPlanRunnerMessage
        /\ prep.step = "runnerPassed" => prep.error = ""

C21_Witness ==
    /\ prep.step = "runnerThrew" /\ prep.error = MaxPlanRunnerMessage
    /\ penv.USE_MAX_PLAN = "true" /\ penv.RUNNER_ENVIRONMENT = "github-hosted"

\* C22: isUsingMaxPlan returns true exactly when USE_MAX_PLAN is the string
\* "true", and false when it is unset or holds any other value.
C22_MaxPlanIffTrueString ==
    prep.step = "asked" =>
        /\ prep.ret \in {"true", "false"}
        /\ prep.ret = "true" <=> penv.USE_MAX_PLAN = "true"

C22_Witness ==
    /\ prep.step = "asked" /\ prep.ret = "false" /\ penv.USE_MAX_PLAN = "false"

\* the calls of the protocol in their order
CallOrder == <<"GET ref", "GET commit", "POST tree", "POST commit", "PATCH ref">>

\* C23: the remote calls of an invocation are the read of the reference, the read
\* of the commit, the creation of the tree, the creation of the commit and the
\* update of the reference, in that order, each sent only after the one before
\* it was answered with success; commit_files issues its file reads only after
\* the commit was read and sends the create-tree call only when all of them have
\* completed.
C23_CallsInOrder ==
    /\ Len(sent) <= Len(CallOrder)
    /\ \A i \in DOMAIN sent :
          /\ sent[i].kind = CallOrder[i]
          /\ i > 1 => (Len(got) >= i - 1 /\ got[i - 1] \in {OkStatus, CreatedStatus})
    /\ reads # <<>> => (IsCommitTool(tool) /\ Len(got) >= 2 /\ got[2] = OkStatus)
    /\ (IsCommitTool(tool) /\ Len(sent) >= 3) =>
          /\ Len(reads) = Len(files)
          /\ \A j \in DOMAIN reads : reads[j] = "fulfilled"

C23_Witness ==
    /\ IsCommitTool(tool) /\ Len(sent) = 5 /\ Len(files) = 2
    /\ \A j \in DOMAIN reads : reads[j] = "fulfilled"

\* C24: the identifiers are threaded without substitution: the commit read is the
\* one the reference read returned (baseSha); the create-tree request has as
\* base_tree the tree of that commit; the create-commit request has as tree the
\* sha the create-tree call returned, as parents the one-element list of baseSha
\* and as message the caller's message; the reference update carries the sha the
\* create-commit call returned.
C24_IdentifiersThreaded ==
    /\ Len(sent) >= 2 => sent[2].body.sha = baseSha
    /\ Len(sent) >= 3 =>
          /\ HasCommit(baseSha)
          /\ sent[3].body.base_tree = CommitAt(baseSha).tree
          /\ baseTreeSha = CommitAt(baseSha).tree
    /\ Len(sent) >= 4 =>
          /\ sent[4].body.tree = treeData
          /\ HasTree(treeData)
          /\ TreeAt(treeData) = Overlay(TreeAt(sent[3].body.base_tree), sent[3].body.tree)
          /\ sent[4].body.parents = <<baseSha>>
          /\ sent[4].body.message = message
    /\ Len(sent) >= 5 =>
          /\ sent[5].body.sha = newCommitData.sha
          /\ HasCommit(newCommitData.sha)
          /\ CommitAt(newCommitData.sha) = sent[4].body

C24_Witness ==
    /\ Len(sent) = 5 /\ ref # baseSha /\ sent[5].body.sha = newCommitData.sha
    /\ sent[4].body.parents = <<baseSha>> /\ message = TestCommitMessage

\* C25: the create-tree request has one entry per input path, in input order,
\* each with mode "100644" and type "blob"; an entry of commit_files carries the
\* file's content as read from disk and no sha, an entry of delete_files carries
\* sha null and no content.
C25_OneEntryPerPath ==
    \A i \in DOMAIN sent :
        sent[i].kind = "POST tree" =>
            /\ Len(sent[i].body.tree) = Len(files)
            /\ \A k \in DOMAIN files :
                  LET e == sent[i].body.tree[k]
                  IN  /\ e.path = Normalized(tool, files[k])
                      /\ e.mode = "100644" /\ e.type = "blob"
                      /\ IF IsCommitTool(tool)
                         THEN /\ DOMAIN e = {"path", "mode", "type", "content"}
                              /\ e.content = ReadFile(FullPath(e.path)).content
                         ELSE /\ DOMAIN e = {"path", "mode", "type", "sha"}
                              /\ e.sha = "null"

C25_Witness ==
    /\ Len(sent) >= 3 /\ IsCommitTool(tool)
    /\ files = << <<"b">>, <<"/", "a">> >>
    /\ sent[3].body.tree[1].content = "B1" /\ sent[3].body.tree[2].content = "A1"

\* C26: when a file read of commit_files fails, the batch is aborted whatever the
\* other reads did or will do: no tree is created, and the Error that leaves
\* names (by the path that was read) a file whose read failed.
C26_FailedReadAbortsBatch ==
    (\E j \in DOMAIN reads : reads[j] = "rejected") =>
        /\ pc = "threw"
        /\ "POST tree" \notin SentKinds
        /\ \E j \in DOMAIN reads :
              /\ reads[j] = "rejected"
              /\ ~ReadFile(FullPath(processed[j])).ok
              /\ StartsWith(outcome.message,
                            <<"Failed to read file '">> \o FullPath(processed[j]) \o <<"': ">>)

C26_Witness ==
    /\ pc = "threw" /\ Len(reads) = 2
    /\ reads[1] = "fulfilled" /\ reads[2] = "rejected"
    /\ Mentions(outcome.message, "m")

\* the commit this invocation created, once the create-commit call has returned
Created == newCommitData.sha

\* C27: the commit an invocation created is reachable from the branch reference
\* only if the remote accepted that invocation's reference update; after a
\* rejected update the created tree and commit exist in the remote and the
\* reference neither points at the created commit nor descends from it.
C27_OrphanedUnlessAccepted ==
    /\ (Created # "" /\ IsAncestorOrEqual(Created, ref)) => patchObs.accepted
    /\ (UpdateSent /\ Len(got) = Len(sent) /\ got[Len(got)] \in RejectStatuses) =>
          /\ HasTree(treeData) /\ HasCommit(Created)
          /\ CommitAt(Created).tree = treeData
          /\ ~IsAncestorOrEqual(Created, ref)

C27_Witness ==
    /\ UpdateFailed /\ got[Len(got)] = "500" /\ ref = baseSha
    /\ HasCommit(Created) /\ HasTree(treeData) /\ ~IsAncestorOrEqual(Created, ref)

\* C28: when the caller re-attempts the operation after a rejected reference
\* update, with the same arguments and with the reference not moved in between,
\* and the re-attempt succeeds, the branch is where the first attempt would have
\* left it: at a commit whose only parent is the first attempt's baseSha, with
\* the caller's message and the tree content of the commit the first attempt
\* created.  That first commit and its tree still exist, unreferenced: they are
\* the only difference.
C28_ReattemptEndsAsFirstWould ==
    (earlier # <<>> /\ pc = "returned") =>
        \A i \in DOMAIN earlier :
            /\ baseSha = earlier[i].baseSha
            /\ ref = outcome.commit.sha
            /\ CommitAt(ref).parents = <<earlier[i].baseSha>>
            /\ CommitAt(ref).message = message
            /\ HasCommit(earlier[i].created) /\ HasTree(earlier[i].tree)
            /\ CommitAt(ref).message = CommitAt(earlier[i].created).message
            /\ TreeAt(CommitAt(ref).tree) = TreeAt(CommitAt(earlier[i].created).tree)
            /\ ref # earlier[i].created
            /\ ~IsAncestorOrEqual(earlier[i].created, ref)

C28_Witness ==
    /\ Len(earlier) = 1 /\ earlier[1].status = "500" /\ pc = "returned"
    /\ IsCommitTool(tool) /\ files # <<>>
    /\ Len(commits) = 3 /\ ref = CommitSha(3) /\ earlier[1].created = CommitSha(2)

\* C29: of two invocations running at the same time on the same branch that read
\* the same baseSha, at most one has its reference update accepted; and every
\* commit the reference has ever pointed to is the reference's current value or
\* an ancestor of it.
C29_OneWinnerNothingLost ==
    /\ (patchObs.accepted /\ peer.accepted) => baseSha # peer.base
    /\ \A c \in refHist : IsAncestorOrEqual(c, ref)

C29_Witness ==
    /\ patchObs.accepted /\ pc = "returned"
    /\ peer.pc = "done" /\ ~peer.accepted /\ peer.base = baseSha
    /\ ~IsAncestorOrEqual(peer.commit, ref)

\* the gates of run() in their order; the token is set up in one of two ways
GateRank(name) ==
    CASE name = "validateProviderSelection" -> 1
      [] name = "validateMaxPlanRunner" -> 2
      [] name \in {"maxPlanToken", "setupGitHubToken"} -> 3
      [] name = "parseGitHubContext" -> 4
      [] name = "checkWritePermissions" -> 5
      [] name = "checkTriggerAction" -> 6
      [] name = "checkHumanActor" -> 7
      [] name = "createInitialComment" -> 8
      [] OTHER -> 9
CalledIn(p, name) == \E i \in DOMAIN p.calls : p.calls[i].name = name
ResultIn(p, name, r) ==
    \E i \in DOMAIN p.calls : p.calls[i].name = name /\ p.calls[i].result = r

\* C30: run() goes through its gates in a fixed order: provider validation, token
\* setup, write-permission check, trigger check, human-actor check, creation of
\* the tracking comment; a step happens only if every step before it passed.
\* The tracking comment is never created when the actor lacks write permission,
\* when no trigger is found or when the actor check throws.
C30_GatesInOrder ==
    /\ \A i, j \in DOMAIN prep.calls :
          i < j => /\ GateRank(prep.calls[i].name) <= GateRank(prep.calls[j].name)
                   /\ prep.calls[i].result = "ok"
    /\ \A i \in DOMAIN prep.calls :
          GateRank(prep.calls[i].name) <= 8 => GateRank(prep.calls[i].name) = i
    /\ CalledIn(prep, "createInitialComment") =>
          /\ ResultIn(prep, "checkWritePermissions", "ok")
          /\ ResultIn(prep, "checkTriggerAction", "ok")
          /\ ResultIn(prep, "checkHumanActor", "ok")
    /\ (\/ ResultIn(prep, "checkWritePermissions", "false")
        \/ ResultIn(prep, "checkTriggerAction", "false")
        \/ ResultIn(prep, "checkHumanActor", "threw")) =>
          ~CalledIn(prep, "createInitialComment")

C30_Witness ==
    /\ ResultIn(prep, "createInitialComment", "ok")
    /\ ResultIn(prep, "maxPlanToken", "ok") /\ prep.token = "ghs_tok"
    /\ Len(prep.calls) = 8

\* the calls of run() that come after the trigger check
LaterSteps ==
    {"checkHumanActor", "createInitialComment", "fetchGitHubData", "setupBranch",
     "updateTrackingComment", "createPrompt", "prepareMcpConfig"}

\* C31: when checkTriggerAction finds no trigger, run() ends normally: nothing is
\* set as failed and the exit status is not 1; none of the later steps occurs:
\* no comment is created, no branch is set up, no prompt is written and no
\* mcp_config output is set.  The trigger check is the last call run() made.
C31_NoTriggerEndsQuietly ==
    ResultIn(prep, "checkTriggerAction", "false") =>
        /\ prep.step = "done" /\ prep.exit = "0" /\ prep.failed = ""
        /\ prep.log = "No trigger found, skipping remaining steps"
        /\ \A name \in LaterSteps : ~CalledIn(prep, name)
        /\ prep.calls[Len(prep.calls)].name = "checkTriggerAction"
        /\ prep.outputs = {} /\ ~prep.claudeBranch

C31_Witness ==
    /\ ResultIn(prep, "checkTriggerAction", "false")
    /\ ResultIn(prep, "checkWritePermissions", "ok")
    /\ prep.step = "done" /\ prep.exit = "0" /\ Len(prep.calls) = 6

\* an environment variable that is set to something
Given(v) == v # Unset /\ v # ""
\* run() has a token and went on to use it
PastToken == prep.step \notin {"start", "token", "failed"} \/ Len(prep.calls) > 3
\* the calls run() makes before it needs GitHub
BeforeGitHub == {"validateProviderSelection", "validateMaxPlanRunner", "maxPlanToken"}

\* C32: with USE_MAX_PLAN = "true" the token exchange (setupGitHubToken) is never
\* called and the token is OVERRIDE_GITHUB_TOKEN when that is given (set and not
\* empty), else GITHUB_TOKEN; with neither given run() fails with "GitHub token
\* is required ..." before any call that reaches GitHub.  Without Max plan the
\* token is never taken from the environment: it is what the exchange returned.
C32_TokenSource ==
    /\ penv.USE_MAX_PLAN = "true" =>
          /\ ~CalledIn(prep, "setupGitHubToken")
          /\ prep.token \in {"", penv.OVERRIDE_GITHUB_TOKEN, penv.GITHUB_TOKEN}
          /\ PastToken =>
                /\ Given(prep.token)
                /\ prep.token = IF Given(penv.OVERRIDE_GITHUB_TOKEN)
                                THEN penv.OVERRIDE_GITHUB_TOKEN ELSE penv.GITHUB_TOKEN
          /\ (/\ ~Given(penv.OVERRIDE_GITHUB_TOKEN) /\ ~Given(penv.GITHUB_TOKEN)
              /\ CalledIn(prep, "maxPlanToken")) =>
                /\ prep.step = "failed" /\ prep.exit = "1"
                /\ prep.failed = "Prepare step failed with error: Error: "
                                   \o "GitHub token is required when using Max plan authentication"
                /\ \A i \in DOMAIN prep.calls : prep.calls[i].name \in BeforeGitHub
    /\ penv.USE_MAX_PLAN # "true" =>
          /\ ~CalledIn(prep, "maxPlanToken")
          /\ prep.token \in {"", "exchanged_tok"}
          /\ PastToken => ResultIn(prep, "setupGitHubToken", "ok") /\ prep.token = "exchanged_tok"
          /\ ResultIn(prep, "setupGitHubToken", "threw") =>
                prep.step = "failed" /\ Len(prep.calls) = 3

\* Max plan with both variables given: the override wins and run() goes on with it
C32_Witness ==
    /\ penv.USE_MAX_PLAN = "true"
    /\ penv.OVERRIDE_GITHUB_TOKEN = "ovr_tok" /\ penv.GITHUB_TOKEN = "ghs_tok"
    /\ prep.token = "ovr_tok"
    /\ ResultIn(prep, "checkWritePermissions", "ok")

\* the kinds of the requests sent, in the order they were sent
SentOrder == [i \in DOMAIN sent |-> sent[i].kind]

\* C33: commit_files with an empty file list, and delete_files with an empty path
\* list, is not turned away as invalid input: with a token the handler sends its
\* first request, and it can only fail on an answer of the remote.  It reads no
\* file, asks for a tree with no entries over the base tree, and when it returns
\* success it went through all five requests and the branch is at a new commit on
\* the base whose tree content equals the content of the base tree.
C33_EmptyListRunsProtocol ==
    (files = <<>> /\ pc # "idle" /\ ~TokenMissing(token)) =>
        /\ processed = <<>> /\ reads = <<>>
        /\ sent # <<>> /\ sent[1].kind = "GET ref"
        /\ pc = "threw" =>
              /\ Len(got) = Len(sent)
              /\ got[Len(got)] \notin {OkStatus, CreatedStatus}
        /\ \A i \in DOMAIN sent :
              sent[i].kind = "POST tree" => sent[i].body = [base_tree |-> baseTreeSha, tree |-> <<>>]
        /\ pc = "returned" =>
              LET sha == outcome.commit.sha
              IN  /\ SentOrder = <<"GET ref", "GET commit", "POST tree", "POST commit", "PATCH ref">>
                  /\ HasTree(treeData) /\ TreeAt(treeData) = TreeAt(baseTreeSha)
                  /\ HasCommit(sha) /\ sha # baseSha
                  /\ CommitAt(sha) = [message |-> message, tree |-> treeData, parents |-> <<baseSha>>]
                  /\ patchObs.accepted /\ patchObs.after = sha
                  /\ TreeAt(CommitAt(sha).tree) = TreeAt(CommitAt(baseSha).tree)
                  /\ outcome.ok /\ outcome.paths = <<>>

C33_Witness ==
    /\ files = <<>> /\ pc = "returned" /\ tool = "delete_files"
    /\ Len(trees) = 3 /\ Len(commits) = 3
    /\ TreeAt(treeData) = TreeAt(baseTreeSha)
    /\ <<"k">> \in DOMAIN TreeAt(treeData)
    /\ ref = outcome.commit.sha

\* p starts with one slash and no more
OneLeadingSlash(p) == StartsWith(p, <<"/">>) /\ ~StartsWith(Slice(p, 1), <<"/">>)
\* p without its first character
Bare(p) == Slice(p, 1)

\* C34: for commit_files an input path with exactly one leading slash is handled
\* as the same path without it: the handler submits the bare path, reads the file
\* of that name under the repository root, puts the bare path and that file's
\* content in the tree entry and the bare path in the result; given both forms
\* in one call, the two get the same read, the same entry and the same result.
C34_LeadingSlashEquivalent ==
    (IsCommitTool(tool) /\ pc # "idle" /\ Len(processed) = Len(files)) =>
        \A i \in DOMAIN files :
            OneLeadingSlash(files[i]) =>
                LET q == Bare(files[i])
                    local == Join(REPO_DIR, q)
                IN  /\ processed[i] = q /\ ProcessCommitPath(q) = q
                    /\ FullPath(processed[i]) = local
                    /\ FullPath(ProcessCommitPath(q)) = local
                    /\ (i \in DOMAIN reads /\ reads[i] # "pending") =>
                          (reads[i] = "fulfilled") = ReadFile(local).ok
                    /\ treeEntries # <<>> =>
                          treeEntries[i] = [path |-> q, mode |-> "100644", type |-> "blob",
                                            content |-> ReadFile(local).content]
                    /\ pc = "returned" => outcome.paths[i] = q
                    /\ \A j \in DOMAIN files :
                          files[j] = q =>
                             /\ processed[j] = processed[i]
                             /\ treeEntries # <<>> => treeEntries[j] = treeEntries[i]
                             /\ (j \in DOMAIN reads /\ reads[i] # "pending" /\ reads[j] # "pending")
                                   => reads[j] = reads[i]
                             /\ pc = "returned" => outcome.paths[j] = outcome.paths[i]

C34_Witness ==
    /\ tool = "commit_files" /\ pc = "returned"
    /\ files = << <<"a">>, <<"/", "a">> >>
    /\ treeEntries[1] = treeEntries[2] /\ treeEntries[2].content = "A1"
    /\ outcome.paths = << <<"a">>, <<"a">> >>

\* both runs have ended, called alike but for the credential, and were given
\* the same answers
SameRunsButToken ==
    /\ earlier # <<>> /\ pc \in {"threw", "returned"}
    /\ tool = earlier[1].tool /\ files = earlier[1].files /\ message = earlier[1].message
    /\ token # "" /\ earlier[1].token # ""
    /\ got = earlier[1].got /\ gotRead = earlier[1].gotRead /\ reads = earlier[1].reads

\* C35: the value of the bearer token has no influence on what a tool writes to
\* the diagnostic log or on the error it returns: two runs that differ only in
\* the (non-empty) token and get the same answers write the same log lines and
\* end with the same result or error message.
C35_TokenNeverInfluences ==
    SameRunsButToken => log = earlier[1].log /\ outcome = earlier[1].outcome

====
